---------------------------- MODULE Spec2Model ----------------------------
(***************************************************************************)
(* Model of the session-scoped multi-artifact context engine of the        *)
(* backend: the in-memory session / chat-history maps and their HTTP       *)
(* handlers (api/v1/endpoints), the prompt context assembly                *)
(* (services/gemini_service.py) and the rate limiter middleware            *)
(* (middleware/rate_limiter.py).                                           *)
(*                                                                         *)
(* Every handler that touches app.state runs without an event-loop         *)
(* suspension between its first read and its last write of the maps, so    *)
(* each handler is one action. RateLimiter.dispatch suspends at            *)
(* `await call_next(request)` and is two actions.                          *)
(***************************************************************************)
EXTENDS Integers, Sequences, FiniteSets, TLC

VARIABLES
    sessions,       \* app.state.sessions: session id -> session record
    chat_history,   \* app.state.chat_history: session id -> list of turns
    clock,          \* time.time()
    resp,           \* outcome of the last handler call
    upload_refs,    \* ids with a successful upload since their last delete_session call
    chat_refs,      \* ids with a chat call since their last delete_session call
    rl_now,         \* time.time() as read by the rate limiter
    rl_requests,    \* RateLimiter.requests: client -> list of timestamps
    rl_limit,       \* RateLimiter.requests_per_minute
    rl_inflight,    \* admitted requests suspended in call_next
    rl_resp,        \* outcome of the last dispatch step
    rl_log,         \* every dispatch call so far: client -> list of decisions
    rl_count,       \* number of dispatch calls so far
    docs,           \* documents mapping handed to gemini_service.chat (texts by length)
    doc_out,        \* the document block built from docs
    idx_sd,         \* a session record's three mappings handed to a chat turn
    idx_out,        \* the file index built from idx_sd
    win_h,          \* a history list
    win_out,        \* the windows computed from win_h
    prm_in,         \* one chat request as it reaches the prompt assembly
    prm_out,        \* the content parts built and the completion calls made
    split_in,       \* a text, a chunk size and an overlap handed to a text splitter
    split_out,      \* the splitter that ran and the chunks it returned
    up_inflight,    \* upload_csv calls suspended at the file write
    up_done,        \* the uploads that have stored their record, in order
    up_ids,         \* the file ids generated so far
    iso_requests,   \* RateLimiter.requests in two runs of one limiter
    iso_log,        \* the decisions on the requests the two runs share
    iso_count       \* number of requests dispatched in the two runs

store_vars == <<sessions, chat_history, clock, resp, upload_refs, chat_refs>>
rl_vars    == <<rl_now, rl_requests, rl_limit, rl_inflight, rl_resp, rl_log, rl_count>>
doc_vars   == <<docs, doc_out>>
idx_vars   == <<idx_sd, idx_out>>
win_vars   == <<win_h, win_out>>
prm_vars   == <<prm_in, prm_out>>
split_vars == <<split_in, split_out>>
up_vars    == <<up_inflight, up_done, up_ids>>
iso_vars   == <<iso_requests, iso_log, iso_count>>
vars == <<store_vars, rl_vars, doc_vars, idx_vars, win_vars, prm_vars, split_vars,
          up_vars, iso_vars>>

-----------------------------------------------------------------------------
(* Bounds and input sets *)

Sessions  == {"s1"}
FileIds   == {"f1", "f2"}
Filenames == {"a"}
Messages  == {"m"}
Kinds     == <<"images", "csvs", "documents">>
KindSet   == {"images", "csvs", "documents"}

MaxClock == 1
MaxTurns == 2

\* a session holds at most one artifact per generated id
MaxFiles == Cardinality(FileIds)

-----------------------------------------------------------------------------
(* Python helpers *)

Min(a, b) == IF a <= b THEN a ELSE b
Max(a, b) == IF a >= b THEN a ELSE b

\* seq[start:] with Python's index normalisation
PySliceFrom(seq, start) ==
    LET n == Len(seq)
        s0 == IF start < 0 THEN Max(start + n, 0) ELSE Min(start, n)
    IN  SubSeq(seq, s0 + 1, n)

\* seq[:stop] for stop >= 0
PySliceTo(seq, stop) == SubSeq(seq, 1, Min(stop, Len(seq)))

\* insertion-ordered dict as a sequence of entries with a file_id key
DictKeys(d) == {d[i].file_id : i \in 1..Len(d)}
DictHas(d, k) == k \in DictKeys(d)
DictSet(d, e) ==
    IF DictHas(d, e.file_id)
    THEN [i \in 1..Len(d) |-> IF d[i].file_id = e.file_id THEN e ELSE d[i]]
    ELSE Append(d, e)
DictDel(d, k) == SelectSeq(d, LAMBDA e : e.file_id # k)

MapClear(m, k) == <<>>
MapDel(m, k) == [x \in DOMAIN m \ {k} |-> m[x]]
MapSet(m, k, v) == [x \in DOMAIN m \cup {k} |-> IF x = k THEN v ELSE m[x]]

-----------------------------------------------------------------------------
(* Session store *)

NewSession(t) ==
    [images |-> <<>>, csvs |-> <<>>, documents |-> <<>>,
     created_at |-> t, last_activity |-> t]

\* the default of sessions.get(session_id, {...}) in chat
DefaultSessionData == [images |-> <<>>, csvs |-> <<>>, documents |-> <<>>]

FileCount(sd) == Len(sd.images) + Len(sd.csvs) + Len(sd.documents)

Entry(fid, fname, t) ==
    [file_id |-> fid, filename |-> fname, uploaded_at |-> t]

NoResp == [name |-> "none", sid |-> "", fid |-> "", status |-> "",
           history_cleared |-> "absent", ordered_files |-> <<>>,
           ordered_context |-> <<>>, window |-> <<>>,
           files |-> <<>>, messages |-> 0,
           unlink_failed |-> FALSE, completions |-> <<>>]

Resp(name, sid, fid, status) ==
    [NoResp EXCEPT !.name = name, !.sid = sid, !.fid = fid, !.status = status]

StoreArtifactKindOnly(kind, s, e) ==
    IF s \in DOMAIN sessions
    THEN [sessions EXCEPT ![s][kind] = DictSet(@, e), ![s].last_activity = clock]
    ELSE MapSet(sessions, s,
                [k \in {kind, "created_at", "last_activity"} |->
                    IF k = kind THEN <<e>> ELSE clock])

\* "sessions[session_id] = {...}" without the test for an existing record
StoreArtifactFresh(kind, s, e) ==
    MapSet(sessions, s, [NewSession(clock) EXCEPT ![kind] = <<e>>])

StoreArtifactNoCreate(kind, s, e) ==
    IF s \in DOMAIN sessions
    THEN [sessions EXCEPT ![s][kind] = DictSet(@, e), ![s].last_activity = clock]
    ELSE sessions

\* setdefault / "if session_id not in sessions: sessions[session_id] = {...}",
\* then sessions[session_id][kind][file_id] = {...}; last_activity = time.time()
StoreArtifact(kind, s, e) ==
    LET base == IF s \in DOMAIN sessions THEN sessions[s] ELSE NewSession(clock)
        rec  == [base EXCEPT ![kind] = DictSet(base[kind], e),
                             !.last_activity = clock]
    IN  MapSet(sessions, s, rec)

UploadOk(name, kind, s, fid, fname) ==
    /\ IF s \in DOMAIN sessions THEN FileCount(sessions[s]) < MaxFiles ELSE TRUE
    /\ sessions' = StoreArtifact(kind, s, Entry(fid, fname, clock))
    /\ resp' = Resp(name, s, fid, "uploaded")
    /\ upload_refs' = upload_refs \cup {s}
    /\ UNCHANGED <<chat_history, clock, chat_refs>>

\* the session record is set up before the file is validated
UploadRejectedAfterCreate(name, s) ==
    /\ resp' = Resp(name, s, "", "error")
    /\ sessions' = IF s \in DOMAIN sessions THEN sessions
                   ELSE MapSet(sessions, s, NewSession(clock))
    /\ UNCHANGED <<chat_history, clock, upload_refs, chat_refs>>

\* content-type / extension check, validation or parsing raised
UploadRejected(name, s) ==
    /\ resp' = Resp(name, s, "", "error")
    /\ UNCHANGED <<sessions, chat_history, clock, upload_refs, chat_refs>>

upload_image(s, fid, fname, ok) ==
    IF ok THEN UploadOk("upload_image", "images", s, fid, fname)
    ELSE UploadRejected("upload_image", s)

upload_csv(s, fid, fname, ok) ==
    IF ok THEN UploadOk("upload_csv", "csvs", s, fid, fname)
    ELSE UploadRejected("upload_csv", s)

upload_csv_url(s, fid, fname, ok) ==
    IF ok THEN UploadOk("upload_csv_url", "csvs", s, fid, fname)
    ELSE UploadRejected("upload_csv_url", s)

upload_document(s, fid, fname, ok) ==
    IF ok THEN UploadOk("upload_document", "documents", s, fid, fname)
    ELSE UploadRejected("upload_document", s)


-----------------------------------------------------------------------------
(* Cascading history clear: the condition each deletion handler evaluates *)
(* on the session record after its own removal                            *)

delete_all_images_no_files(sd) == sd.csvs = <<>> /\ sd.documents = <<>>

delete_all_csvs_only_images(sd) == sd.images = <<>>
delete_all_csvs_no_files(sd) == sd.images = <<>> /\ sd.documents = <<>>

delete_all_documents_no_files(sd) == sd.images = <<>> /\ sd.csvs = <<>>

delete_single_skips_documents(sd) == sd.images = <<>> /\ sd.csvs = <<>>
delete_single_no_files(sd) ==
    sd.images = <<>> /\ sd.csvs = <<>> /\ sd.documents = <<>>

DropOldestTurn(s) ==
    IF s \in DOMAIN chat_history /\ Len(chat_history[s]) > 1
    THEN [chat_history EXCEPT ![s] = Tail(@)]
    ELSE MapDel(chat_history, s)

\* "if session_id in chat_history: del chat_history[session_id]"
DropHistory(s) == MapDel(chat_history, s)

\* the session record once the mapping of one kind has been emptied
ClearedKind(s, kind) == [sessions[s] EXCEPT ![kind] = <<>>]

\* fs_ok: Path.unlink succeeds on the backing files of this call.
\* The handler ends with the exception of a failed unlink
UnlinkPropagates(fs_ok, attempted) == attempted /\ ~fs_ok

\* "try: Path(...).unlink(missing_ok=True) ... except Exception as e:" records
\* the exception and goes on
UnlinkAborts(fs_ok, attempted) == FALSE

\* an unlink of this call raised and was recorded
UnlinkFailed(fs_ok, attempted) == attempted /\ ~fs_ok

\* the handler left through an uncaught exception before touching the maps
Aborted(name, s, fid) ==
    /\ resp' = [Resp(name, s, fid, "500") EXCEPT !.unlink_failed = TRUE]
    /\ UNCHANGED <<sessions, chat_history, clock, upload_refs, chat_refs>>

\* no_files is the handler's own test on the emptied record
DeleteAll(name, kind, s, no_files, fs_ok) ==
    IF s \in DOMAIN sessions
    THEN IF UnlinkAborts(fs_ok, sessions[s][kind] # <<>>)
         THEN Aborted(name, s, "")
         ELSE /\ sessions' = [sessions EXCEPT ![s] = ClearedKind(s, kind)]
              /\ chat_history' = IF no_files THEN DropHistory(s) ELSE chat_history
              /\ resp' = [Resp(name, s, "", "deleted") EXCEPT
                             !.history_cleared = "true",
                             !.unlink_failed =
                                 UnlinkFailed(fs_ok, sessions[s][kind] # <<>>)]
              /\ UNCHANGED <<clock, upload_refs, chat_refs>>
    ELSE /\ resp' = Resp(name, s, "", "not_found")
         /\ UNCHANGED <<sessions, chat_history, clock, upload_refs, chat_refs>>

delete_all_images(s, fs_ok) ==
    DeleteAll("delete_all_images", "images", s,
              delete_all_images_no_files(ClearedKind(s, "images")), fs_ok)

delete_all_csvs(s, fs_ok) ==
    DeleteAll("delete_all_csvs", "csvs", s,
              delete_all_csvs_no_files(ClearedKind(s, "csvs")), fs_ok)

delete_all_documents(s, fs_ok) ==
    DeleteAll("delete_all_documents", "documents", s,
              delete_all_documents_no_files(ClearedKind(s, "documents")), fs_ok)

DeleteSingleDropsSession(name, kind, s, fid, fs_ok) ==
    IF s \in DOMAIN sessions /\ DictHas(sessions[s][kind], fid)
    THEN LET sd == [sessions[s] EXCEPT ![kind] = DictDel(@, fid)]
         IN  /\ sessions' = IF delete_single_no_files(sd)
                            THEN MapDel(sessions, s)
                            ELSE [sessions EXCEPT ![s] = sd]
             /\ chat_history' = IF delete_single_no_files(sd)
                                THEN DropHistory(s) ELSE chat_history
             /\ resp' = [Resp(name, s, fid, "deleted") EXCEPT
                            !.unlink_failed = UnlinkFailed(fs_ok, TRUE)]
             /\ UNCHANGED <<clock, upload_refs, chat_refs>>
    ELSE /\ resp' = Resp(name, s, fid, "404")
         /\ UNCHANGED <<sessions, chat_history, clock, upload_refs, chat_refs>>

DeleteSingle(name, kind, s, fid, fs_ok) ==
    IF s \in DOMAIN sessions /\ DictHas(sessions[s][kind], fid)
    THEN IF UnlinkAborts(fs_ok, TRUE)
         THEN Aborted(name, s, fid)
         ELSE LET sd == [sessions[s] EXCEPT ![kind] = DictDel(@, fid)]
              IN  /\ sessions' = [sessions EXCEPT ![s] = sd]
                  /\ chat_history' = IF delete_single_no_files(sd)
                                     THEN DropHistory(s) ELSE chat_history
                  /\ resp' = [Resp(name, s, fid, "deleted") EXCEPT
                                 !.unlink_failed = UnlinkFailed(fs_ok, TRUE)]
                  /\ UNCHANGED <<clock, upload_refs, chat_refs>>
    ELSE /\ resp' = Resp(name, s, fid, "404")
         /\ UNCHANGED <<sessions, chat_history, clock, upload_refs, chat_refs>>

delete_single_image(s, fid, fs_ok) ==
    DeleteSingle("delete_single_image", "images", s, fid, fs_ok)
delete_single_csv(s, fid, fs_ok) ==
    DeleteSingle("delete_single_csv", "csvs", s, fid, fs_ok)
delete_single_document(s, fid, fs_ok) ==
    DeleteSingle("delete_single_document", "documents", s, fid, fs_ok)

\* the history is dropped before the session is looked up
delete_session_history_first(s, fs_ok) ==
    /\ chat_history' = DropHistory(s)
    /\ IF s \in DOMAIN sessions
       THEN /\ sessions' = MapDel(sessions, s)
            /\ resp' = [Resp("delete_session", s, "", "deleted") EXCEPT
                           !.unlink_failed =
                               UnlinkFailed(fs_ok, FileCount(sessions[s]) > 0)]
       ELSE /\ resp' = Resp("delete_session", s, "", "404")
            /\ UNCHANGED sessions
    /\ upload_refs' = upload_refs \ {s}
    /\ chat_refs' = chat_refs \ {s}
    /\ UNCHANGED clock

\* the unlink loops over the three mappings, "del sessions[session_id]",
\* then the history of that id
delete_session(s, fs_ok) ==
    IF s \in DOMAIN sessions /\ UnlinkAborts(fs_ok, FileCount(sessions[s]) > 0)
    THEN Aborted("delete_session", s, "")
    ELSE /\ IF s \in DOMAIN sessions
            THEN /\ sessions' = MapDel(sessions, s)
                 /\ chat_history' = DropHistory(s)
                 /\ resp' = [Resp("delete_session", s, "", "deleted") EXCEPT
                                !.unlink_failed =
                                    UnlinkFailed(fs_ok, FileCount(sessions[s]) > 0)]
            ELSE /\ resp' = Resp("delete_session", s, "", "404")
                 /\ UNCHANGED <<sessions, chat_history>>
         /\ upload_refs' = upload_refs \ {s}
         /\ chat_refs' = chat_refs \ {s}
         /\ UNCHANGED clock

clear_chat_history(s) ==
    /\ IF s \in DOMAIN chat_history
       THEN /\ chat_history' = MapDel(chat_history, s)
            /\ resp' = Resp("clear_chat_history", s, "", "cleared")
       ELSE /\ resp' = Resp("clear_chat_history", s, "", "not_found")
            /\ UNCHANGED chat_history
    /\ UNCHANGED <<sessions, clock, upload_refs, chat_refs>>

-----------------------------------------------------------------------------
(* History windows *)

HistoryWindow == 10

\* history[-10:] handed to chat_with_session
ChatWindow(history) == PySliceFrom(history, -HistoryWindow)

GetChatHistoryFirst(history, limit) ==
    IF limit # 0 THEN PySliceTo(history, limit) ELSE history

\* "history[-limit:] if limit else history"
GetChatHistoryMessages(history, limit) ==
    IF limit # 0 THEN PySliceFrom(history, -limit) ELSE history

get_chat_history(s, limit) ==
    /\ resp' = IF s \in DOMAIN chat_history
               THEN [Resp("get_chat_history", s, "", "ok") EXCEPT
                        !.window = GetChatHistoryMessages(chat_history[s], limit),
                        !.messages = Len(chat_history[s])]
               ELSE Resp("get_chat_history", s, "", "ok")
    /\ UNCHANGED <<sessions, chat_history, clock, upload_refs, chat_refs>>

-----------------------------------------------------------------------------
(* Chat turn: ordered file index *)

FileDescriptors(sd, kind) ==
    [i \in 1..Len(sd[kind]) |->
        [type |-> kind, file_id |-> sd[kind][i].file_id,
         filename |-> sd[kind][i].filename,
         uploaded_at |-> sd[kind][i].uploaded_at]]

\* for ftype in ["images", "csvs", "documents"]: for fid, finfo in ...items()
CollectFiles(sd) ==
    FileDescriptors(sd, Kinds[1]) \o FileDescriptors(sd, Kinds[2])
        \o FileDescriptors(sd, Kinds[3])

InsertBeforeEqual(x, sorted) ==
    LET k == Cardinality({i \in 1..Len(sorted) :
                             sorted[i].uploaded_at < x.uploaded_at})
    IN  SubSeq(sorted, 1, k) \o <<x>> \o SubSeq(sorted, k + 1, Len(sorted))

\* list.sort(key=lambda f: f["uploaded_at"]) is stable
InsertByUploadedAt(x, sorted) ==
    LET k == Cardinality({i \in 1..Len(sorted) :
                             sorted[i].uploaded_at <= x.uploaded_at})
    IN  SubSeq(sorted, 1, k) \o <<x>> \o SubSeq(sorted, k + 1, Len(sorted))

RECURSIVE SortByUploadedAt(_)
SortByUploadedAt(files) ==
    IF files = <<>> THEN <<>>
    ELSE InsertByUploadedAt(files[Len(files)],
                            SortByUploadedAt(SubSeq(files, 1, Len(files) - 1)))

UnsortedFiles(sd) == CollectFiles(sd)

\* all_files as the chat handler leaves it after all_files.sort(...)
OrderedFiles(sd) == SortByUploadedAt(CollectFiles(sd))

Upper(kind) ==
    CASE kind = "images" -> "IMAGES"
      [] kind = "csvs" -> "CSVS"
      [] kind = "documents" -> "DOCUMENTS"

\* "[{i+1}] {type.upper()} -> {filename}" for i, f in enumerate(all_files)
OrderedContext(all_files) ==
    [i \in 1..Len(all_files) |->
        [n |-> i, type |-> Upper(all_files[i].type),
         filename |-> all_files[i].filename]]

SessionData(s) ==
    IF s \in DOMAIN sessions
    THEN [images |-> sessions[s].images, csvs |-> sessions[s].csvs,
          documents |-> sessions[s].documents]
    ELSE DefaultSessionData

UserTurnStampedLate(msg, t) ==
    [role |-> "user", content |-> msg, timestamp |-> t + 1]

\* the "context" counts of a user turn are written and never read back
UserTurn(msg, t) == [role |-> "user", content |-> msg, timestamp |-> t]

AssistantTurn(text, t) == [role |-> "assistant", content |-> text, timestamp |-> t]

CompletionCallsRetried(ok) ==
    IF ok THEN <<"returned">> ELSE <<"raised", "raised">>

\* the outcomes of the calls of model.generate_content made for one request:
\* "response = model.generate_content(context_parts)" runs once; the except
\* branch of gemini_service.chat logs and re-raises
CompletionCalls(ok) == <<IF ok THEN "returned" ELSE "raised">>

\* ok: the completion call returned; d: time it took
chat(s, msg, ok, d) ==
    LET history0 == IF s \in DOMAIN chat_history THEN chat_history[s] ELSE <<>>
        sd       == SessionData(s)
        history1 == Append(history0, UserTurn(msg, clock))
        all_files == OrderedFiles(sd)
        history2 == Append(history1, AssistantTurn("r", clock + d))
        out == [Resp("chat", s, "", IF ok THEN "ok" ELSE "500") EXCEPT
                   !.ordered_files = all_files,
                   !.ordered_context = OrderedContext(all_files),
                   !.window = ChatWindow(history1),
                   !.completions = CompletionCalls(ok)]
    IN  /\ clock + d <= MaxClock
        /\ Len(history0) + (IF ok THEN 2 ELSE 1) <= MaxTurns
        /\ clock' = clock + d
        /\ resp' = out
        /\ chat_refs' = chat_refs \cup {s}
        /\ UNCHANGED upload_refs
        /\ IF ok
           THEN /\ chat_history' = MapSet(chat_history, s, history2)
                /\ sessions' = IF s \in DOMAIN sessions
                               THEN [sessions EXCEPT ![s].last_activity = clock + d]
                               ELSE sessions
           ELSE /\ chat_history' = MapSet(chat_history, s, history1)
                /\ UNCHANGED sessions

-----------------------------------------------------------------------------
(* Read paths *)

IdsOf(q) == [i \in 1..Len(q) |-> q[i].file_id]

StoreUnchanged == UNCHANGED <<sessions, chat_history, clock, upload_refs, chat_refs>>

\* "if session_id in sessions: ... return count 0 otherwise"
ListFiles(name, s, listed) ==
    /\ resp' = IF s \in DOMAIN sessions
               THEN [Resp(name, s, "", "ok") EXCEPT !.files = listed]
               ELSE Resp(name, s, "", "ok")
    /\ StoreUnchanged

\* sorted(images.items(), key=lambda x: x[1].get("uploaded_at", 0))
list_images(s) ==
    ListFiles("list_images", s, IdsOf(SortByUploadedAt(sessions[s].images)))

list_csvs(s) == ListFiles("list_csvs", s, IdsOf(sessions[s].csvs))

list_documents(s) == ListFiles("list_documents", s, IdsOf(sessions[s].documents))

get_document_info(s, fid) ==
    /\ resp' = IF s \in DOMAIN sessions /\ DictHas(sessions[s].documents, fid)
               THEN Resp("get_document_info", s, fid, "ok")
               ELSE Resp("get_document_info", s, fid, "404")
    /\ StoreUnchanged

\* the defaultdict factory of app.state.sessions, run by an unguarded index
get_session_info_unguarded(s) ==
    /\ sessions' = IF s \in DOMAIN sessions THEN sessions
                   ELSE MapSet(sessions, s, NewSession(clock))
    /\ resp' = [Resp("get_session_info", s, "", "ok") EXCEPT
                   !.files = IdsOf(sessions'[s].images) \o IdsOf(sessions'[s].csvs)
                                \o IdsOf(sessions'[s].documents),
                   !.messages = IF s \in DOMAIN chat_history
                                THEN Len(chat_history[s]) ELSE 0]
    /\ UNCHANGED <<chat_history, clock, upload_refs, chat_refs>>

get_session_info(s) ==
    /\ resp' = IF s \in DOMAIN sessions
               THEN [Resp("get_session_info", s, "", "ok") EXCEPT
                        !.files = IdsOf(sessions[s].images) \o IdsOf(sessions[s].csvs)
                                     \o IdsOf(sessions[s].documents),
                        !.messages = IF s \in DOMAIN chat_history
                                     THEN Len(chat_history[s]) ELSE 0]
               ELSE Resp("get_session_info", s, "", "404")
    /\ StoreUnchanged

Tick ==
    /\ clock < MaxClock
    /\ clock' = clock + 1
    /\ UNCHANGED <<sessions, chat_history, resp, upload_refs, chat_refs>>

-----------------------------------------------------------------------------
(* The store specification *)

StoreIdle ==
    /\ sessions = <<>> /\ chat_history = <<>> /\ clock = 0
    /\ resp = NoResp /\ upload_refs = {} /\ chat_refs = {}
RlIdle ==
    /\ rl_now = 0 /\ rl_requests = <<>> /\ rl_limit = 0 /\ rl_inflight = {}
    /\ rl_resp = <<>> /\ rl_log = <<>> /\ rl_count = 0
DocIdle == docs = <<>> /\ doc_out = <<>>
IdxIdle == idx_sd = <<>> /\ idx_out = <<>>
WinIdle == win_h = <<>> /\ win_out = <<>>
PrmIdle == prm_in = <<>> /\ prm_out = <<>>
SplitIdle == split_in = <<>> /\ split_out = <<>>
UpIdle == up_inflight = {} /\ up_done = <<>> /\ up_ids = {}
IsoIdle == iso_requests = <<>> /\ iso_log = <<>> /\ iso_count = 0

Init ==
    /\ sessions = <<>>
    /\ chat_history = <<>>
    /\ clock = 0
    /\ resp = NoResp
    /\ upload_refs = {}
    /\ chat_refs = {}
    /\ RlIdle /\ DocIdle /\ IdxIdle /\ WinIdle /\ PrmIdle /\ SplitIdle /\ UpIdle /\ IsoIdle

StoreFrame == UNCHANGED <<rl_vars, doc_vars, idx_vars, win_vars, prm_vars, split_vars,
                 up_vars, iso_vars>>

Next ==
    \/ \E s \in Sessions, fid \in FileIds, fname \in Filenames, ok \in BOOLEAN :
          upload_image(s, fid, fname, ok) /\ StoreFrame
    \/ \E s \in Sessions, fid \in FileIds, fname \in Filenames, ok \in BOOLEAN :
          upload_csv(s, fid, fname, ok) /\ StoreFrame
    \/ \E s \in Sessions, fid \in FileIds, fname \in Filenames, ok \in BOOLEAN :
          upload_csv_url(s, fid, fname, ok) /\ StoreFrame
    \/ \E s \in Sessions, fid \in FileIds, fname \in Filenames, ok \in BOOLEAN :
          upload_document(s, fid, fname, ok) /\ StoreFrame
    \/ \E s \in Sessions, fs_ok \in BOOLEAN : delete_all_images(s, fs_ok) /\ StoreFrame
    \/ \E s \in Sessions, fs_ok \in BOOLEAN : delete_all_csvs(s, fs_ok) /\ StoreFrame
    \/ \E s \in Sessions, fs_ok \in BOOLEAN : delete_all_documents(s, fs_ok) /\ StoreFrame
    \/ \E s \in Sessions, fid \in FileIds, fs_ok \in BOOLEAN :
          delete_single_image(s, fid, fs_ok) /\ StoreFrame
    \/ \E s \in Sessions, fid \in FileIds, fs_ok \in BOOLEAN :
          delete_single_csv(s, fid, fs_ok) /\ StoreFrame
    \/ \E s \in Sessions, fid \in FileIds, fs_ok \in BOOLEAN :
          delete_single_document(s, fid, fs_ok) /\ StoreFrame
    \/ \E s \in Sessions, fs_ok \in BOOLEAN : delete_session(s, fs_ok) /\ StoreFrame
    \/ \E s \in Sessions : clear_chat_history(s) /\ StoreFrame
    \/ \E s \in Sessions, limit \in 0..MaxTurns : get_chat_history(s, limit) /\ StoreFrame
    \/ \E s \in Sessions, msg \in Messages, ok \in BOOLEAN, d \in 0..1 :
          chat(s, msg, ok, d) /\ StoreFrame
    \/ \E s \in Sessions : list_images(s) /\ StoreFrame
    \/ \E s \in Sessions : list_csvs(s) /\ StoreFrame
    \/ \E s \in Sessions : list_documents(s) /\ StoreFrame
    \/ \E s \in Sessions, fid \in FileIds : get_document_info(s, fid) /\ StoreFrame
    \/ \E s \in Sessions : get_session_info(s) /\ StoreFrame
    \/ Tick /\ StoreFrame

Spec == Init /\ [][Next]_vars

-----------------------------------------------------------------------------
(* Two sessions side by side: the same handlers with image and document   *)
(* uploads of one generated file id, completed chat turns and no time      *)
(* passing, so that two session ids fit                                    *)

SessionPair == {"s1", "s2"}
PairFileId == "f1"

NextPair ==
    \/ \E s \in SessionPair, fname \in Filenames :
          upload_image(s, PairFileId, fname, TRUE) /\ StoreFrame
    \/ \E s \in SessionPair, fname \in Filenames :
          upload_document(s, PairFileId, fname, TRUE) /\ StoreFrame
    \/ \E s \in SessionPair, fs_ok \in BOOLEAN : delete_all_images(s, fs_ok) /\ StoreFrame
    \/ \E s \in SessionPair, fs_ok \in BOOLEAN : delete_all_csvs(s, fs_ok) /\ StoreFrame
    \/ \E s \in SessionPair, fs_ok \in BOOLEAN : delete_all_documents(s, fs_ok) /\ StoreFrame
    \/ \E s \in SessionPair, fid \in FileIds, fs_ok \in BOOLEAN :
          delete_single_image(s, fid, fs_ok) /\ StoreFrame
    \/ \E s \in SessionPair, fid \in FileIds, fs_ok \in BOOLEAN :
          delete_single_csv(s, fid, fs_ok) /\ StoreFrame
    \/ \E s \in SessionPair, fid \in FileIds, fs_ok \in BOOLEAN :
          delete_single_document(s, fid, fs_ok) /\ StoreFrame
    \/ \E s \in SessionPair, fs_ok \in BOOLEAN : delete_session(s, fs_ok) /\ StoreFrame
    \/ \E s \in SessionPair : clear_chat_history(s) /\ StoreFrame
    \/ \E s \in SessionPair : get_chat_history(s, 0) /\ StoreFrame
    \/ \E s \in SessionPair, msg \in Messages :
          chat(s, msg, TRUE, 0) /\ StoreFrame
    \/ \E s \in SessionPair : list_images(s) /\ StoreFrame
    \/ \E s \in SessionPair : list_csvs(s) /\ StoreFrame
    \/ \E s \in SessionPair : list_documents(s) /\ StoreFrame
    \/ \E s \in SessionPair, fid \in FileIds : get_document_info(s, fid) /\ StoreFrame
    \/ \E s \in SessionPair : get_session_info(s) /\ StoreFrame

SpecPair == Init /\ [][NextPair]_vars

-----------------------------------------------------------------------------
(* Uploads that overlap: upload_csv is suspended while the file is written *)

\* upload_csv up to "await asyncio.to_thread(...)": the file id is generated,
\* the store has not been read yet
upload_csv_begin(s, fid, fname) ==
    /\ fid \notin up_ids
    /\ up_ids' = up_ids \cup {fid}
    /\ up_inflight' = up_inflight \cup
           {[sid |-> s, fid |-> fid, filename |-> fname,
             unknown |-> s \notin DOMAIN sessions]}
    /\ UNCHANGED <<store_vars, up_done>>

\* upload_csv from the return of the file write to its response
upload_csv_finish(u, ok) ==
    /\ u \in up_inflight
    /\ upload_csv(u.sid, u.fid, u.filename, ok)
    /\ up_inflight' = up_inflight \ {u}
    /\ up_done' = IF ok
                  THEN Append(up_done, [sid |-> u.sid, fid |-> u.fid,
                                        filename |-> u.filename, kind |-> "csvs",
                                        at |-> clock, unknown |-> u.unknown])
                  ELSE up_done
    /\ UNCHANGED up_ids

\* upload_image has no suspension point: the whole handler is one step
upload_image_whole(s, fid, fname, ok) ==
    /\ fid \notin up_ids
    /\ up_ids' = up_ids \cup {fid}
    /\ upload_image(s, fid, fname, ok)
    /\ up_done' = IF ok
                  THEN Append(up_done, [sid |-> s, fid |-> fid, filename |-> fname,
                                        kind |-> "images", at |-> clock,
                                        unknown |-> s \notin DOMAIN sessions])
                  ELSE up_done
    /\ UNCHANGED up_inflight

UpFrame == UNCHANGED <<rl_vars, doc_vars, idx_vars, win_vars, prm_vars, split_vars,
                       iso_vars>>

NextUp ==
    \/ \E s \in Sessions, fid \in FileIds, fname \in Filenames :
          upload_csv_begin(s, fid, fname) /\ UpFrame
    \/ \E u \in up_inflight, ok \in BOOLEAN : upload_csv_finish(u, ok) /\ UpFrame
    \/ \E s \in Sessions, fid \in FileIds, fname \in Filenames, ok \in BOOLEAN :
          upload_image_whole(s, fid, fname, ok) /\ UpFrame
    \/ Tick /\ UNCHANGED up_vars /\ UpFrame

SpecUp == Init /\ [][NextUp]_vars

-----------------------------------------------------------------------------
(* RateLimiter middleware *)

Clients == {"a"}
RateLimits == {1, 3}                     \* requests_per_minute given to __init__
Window == 60
ArrivalTimes == (0..3) \cup ((Window - 1)..(Window + 1))
MaxRequests == 5

\* self.requests is a defaultdict(list)
RequestsOf(c) == IF c \in DOMAIN rl_requests THEN rl_requests[c] ELSE <<>>
LogOf(c) == IF c \in DOMAIN rl_log THEN rl_log[c] ELSE <<>>

\* [req_time for req_time in self.requests[client_ip] if now - req_time < 60]
PurgeKeepsBoundary(list, now) == SelectSeq(list, LAMBDA t : now - t <= Window)
PurgeNever(list, now) == list
Purge(list, now) == SelectSeq(list, LAMBDA t : now - t < Window)

\* len(self.requests[client_ip]) >= self.requests_per_minute
OverLimitOffByOne(kept) == Len(kept) > rl_limit
OverLimit(kept) == Len(kept) >= rl_limit

\* self.requests_per_minute - len(self.requests[client_ip]), after call_next
RemainingOffByOne(r) == rl_limit - Len(RequestsOf(r.client)) - 1
Remaining(r) == rl_limit - Len(RequestsOf(r.client))

\* a dispatch call of client c changes the list under every suspended request of c
Disturb(c) ==
    {[r EXCEPT !.undisturbed = (r.client # c) /\ r.undisturbed] : r \in rl_inflight}

RlResp(c, now, status, remaining, count, undisturbed) ==
    [client |-> c, now |-> now, status |-> status, remaining |-> remaining,
     count_after_admit |-> count, undisturbed |-> undisturbed]

\* dispatch up to "await call_next(request)", or up to the 429
dispatch(c) ==
    LET now  == rl_now
        kept == Purge(RequestsOf(c), now)
    IN  /\ rl_count < MaxRequests
        /\ rl_count' = rl_count + 1
        /\ IF OverLimit(kept)
           THEN /\ rl_requests' = MapSet(rl_requests, c, kept)
                /\ rl_inflight' = Disturb(c)
                /\ rl_resp' = RlResp(c, now, 429, 0, Len(kept), TRUE)
                /\ rl_log' = MapSet(rl_log, c,
                                Append(LogOf(c), [now |-> now, admitted |-> FALSE]))
           ELSE /\ rl_requests' = MapSet(rl_requests, c, Append(kept, now))
                /\ rl_inflight' = Disturb(c) \cup
                       {[client |-> c, now |-> now,
                         count_after_admit |-> Len(kept) + 1, undisturbed |-> TRUE]}
                /\ rl_resp' = RlResp(c, now, 0, 0, Len(kept) + 1, TRUE)
                /\ rl_log' = MapSet(rl_log, c,
                                Append(LogOf(c), [now |-> now, admitted |-> TRUE]))
        /\ UNCHANGED <<rl_now, rl_limit>>

\* dispatch after call_next returned: the rate limit headers
dispatch_response(r) ==
    /\ r \in rl_inflight
    /\ rl_inflight' = rl_inflight \ {r}
    /\ rl_resp' = RlResp(r.client, r.now, 200, Remaining(r),
                         r.count_after_admit, r.undisturbed)
    /\ UNCHANGED <<rl_now, rl_requests, rl_limit, rl_log, rl_count>>

RlTick ==
    /\ \E t \in ArrivalTimes : t > rl_now /\ rl_now' = t
    /\ UNCHANGED <<rl_requests, rl_limit, rl_inflight, rl_resp, rl_log, rl_count>>

InitRL ==
    /\ rl_now = 0
    /\ rl_requests = <<>>
    /\ rl_limit \in RateLimits
    /\ rl_inflight = {}
    /\ rl_resp = RlResp("", 0, 0, 0, 0, TRUE)
    /\ rl_log = <<>>
    /\ rl_count = 0
    /\ StoreIdle /\ DocIdle /\ IdxIdle /\ WinIdle /\ PrmIdle /\ SplitIdle /\ UpIdle /\ IsoIdle

RlFrame == UNCHANGED <<store_vars, doc_vars, idx_vars, win_vars, prm_vars, split_vars,
                 up_vars, iso_vars>>

NextRL ==
    \/ \E c \in Clients : dispatch(c) /\ RlFrame
    \/ \E r \in rl_inflight : dispatch_response(r) /\ RlFrame
    \/ RlTick /\ RlFrame

SpecRL == InitRL /\ [][NextRL]_vars

-----------------------------------------------------------------------------
(* Two runs of the RateLimiter on request sequences that share a client *)

IsoClients == {"a", "b"}
MaxIsoRequests == 4

\* one list for all clients instead of one list per client
ClientListShared(requests, c) ==
    (IF "a" \in DOMAIN requests THEN requests["a"] ELSE <<>>)
        \o (IF "b" \in DOMAIN requests THEN requests["b"] ELSE <<>>)

\* self.requests[client_ip] of a defaultdict(list)
ClientList(requests, c) == IF c \in DOMAIN requests THEN requests[c] ELSE <<>>

\* dispatch up to call_next or the 429, on the mapping of one run: the
\* mapping it leaves and its decision
Admit(requests, c) ==
    LET kept == Purge(ClientList(requests, c), rl_now)
    IN  IF OverLimit(kept)
        THEN [requests |-> MapSet(requests, c, kept), admitted |-> FALSE]
        ELSE [requests |-> MapSet(requests, c, Append(kept, rl_now)),
              admitted |-> TRUE]

\* a request that both sequences hold: dispatched in both runs at the same time
dispatch_in_both(c) ==
    LET first  == Admit(iso_requests[1], c)
        second == Admit(iso_requests[2], c)
    IN  /\ iso_count < MaxIsoRequests
        /\ iso_count' = iso_count + 1
        /\ iso_requests' = <<first.requests, second.requests>>
        /\ iso_log' = Append(iso_log, [client |-> c, now |-> rl_now,
                                       first |-> first.admitted,
                                       second |-> second.admitted])
        /\ UNCHANGED rl_vars

\* a request that only one of the sequences holds
dispatch_in_one(run, c) ==
    /\ iso_count < MaxIsoRequests
    /\ iso_count' = iso_count + 1
    /\ iso_requests' = [iso_requests EXCEPT ![run] = Admit(@, c).requests]
    /\ UNCHANGED <<iso_log, rl_vars>>

InitIso ==
    /\ rl_now = 0
    /\ rl_requests = <<>>
    /\ rl_limit \in RateLimits
    /\ rl_inflight = {}
    /\ rl_resp = <<>>
    /\ rl_log = <<>>
    /\ rl_count = 0
    /\ iso_requests = << <<>>, <<>> >>
    /\ iso_log = <<>>
    /\ iso_count = 0
    /\ StoreIdle /\ DocIdle /\ IdxIdle /\ WinIdle /\ PrmIdle /\ SplitIdle /\ UpIdle

IsoFrame == UNCHANGED <<store_vars, doc_vars, idx_vars, win_vars, prm_vars, split_vars,
                        up_vars>>

\* the two sequences agree on the requests of client "a" and differ in those
\* of the other clients
NextIso ==
    \/ \E c \in IsoClients : dispatch_in_both(c) /\ IsoFrame
    \/ \E run \in {1, 2}, c \in IsoClients \ {"a"} : dispatch_in_one(run, c) /\ IsoFrame
    \/ RlTick /\ UNCHANGED iso_vars /\ IsoFrame

SpecIso == InitIso /\ [][NextIso]_vars

-----------------------------------------------------------------------------
(* Document block of the prompt context (gemini_service.chat, step 4) *)

max_chars_per_doc == 15000
max_total_chars == 50000
MinPartialChars == 1000                  \* "if remaining > 1000"
DocTruncatedMarkerLen == 25              \* len("\n\n[Document truncated...]")
RemainingMarkerLen == 36                 \* len("\n\n[Remaining documents truncated...]")

DocLens == {900, 3924, 3925, 3926, 15000, 15001, 20000}
MaxDocs == 5

\* one "--- Document: ..." header with the text appended under it
DocPart(i, text_chars, marker_chars, remaining_marker) ==
    [doc |-> i, text |-> text_chars, marker |-> marker_chars,
     remaining_marker |-> remaining_marker]

\* text[:max_chars_per_doc] + (marker if len(text) > max_chars_per_doc else "")
TruncatedTextMarkerAtCap(len) ==
    [text |-> Min(len, max_chars_per_doc),
     marker |-> IF len >= max_chars_per_doc THEN DocTruncatedMarkerLen ELSE 0]
TruncatedTextNoMarker(len) == [text |-> Min(len, max_chars_per_doc), marker |-> 0]
TruncatedText(len) ==
    [text |-> Min(len, max_chars_per_doc),
     marker |-> IF len > max_chars_per_doc THEN DocTruncatedMarkerLen ELSE 0]

\* total_chars + len(truncated_text) > max_total_chars
OverBudgetIgnoresMarker(total, t) == total + t.text > max_total_chars
OverBudget(total, t) == total + t.text + t.marker > max_total_chars

\* "if remaining > 1000"
PartialAllowedFrom1000(remaining) == remaining >= MinPartialChars
PartialAllowed(remaining) == remaining > MinPartialChars

\* truncated_text[:remaining] + "\n\n[Remaining documents truncated...]"
PartialPartUncut(i, t, remaining) == DocPart(i, t.text, t.marker, TRUE)
PartialPart(i, t, remaining) ==
    LET text_chars == Min(t.text, remaining)
    IN  DocPart(i, text_chars, Min(t.marker, remaining - text_chars), TRUE)

\* for file_id, doc_info in documents.items(): ...
RECURSIVE DocLoop(_, _, _, _)
DocLoop(d, i, total_chars, parts) ==
    IF i > Len(d) THEN parts
    ELSE LET t == TruncatedText(d[i])
         IN  IF OverBudget(total_chars, t)
             THEN LET remaining == max_total_chars - total_chars
                  IN  IF PartialAllowed(remaining)
                      THEN Append(parts, PartialPart(i, t, remaining))
                      ELSE parts
             ELSE DocLoop(d, i + 1, total_chars + t.text + t.marker,
                          Append(parts, DocPart(i, t.text, t.marker, FALSE)))

\* "if documents:" ... context_parts.append("\n".join(doc_context))
DocContext(d) ==
    IF d = <<>> THEN [present |-> FALSE, parts |-> <<>>]
    ELSE [present |-> TRUE, parts |-> DocLoop(d, 1, 0, <<>>)]

build_doc_context ==
    /\ doc_out = <<>>
    /\ doc_out' = DocContext(docs)
    /\ UNCHANGED docs

RECURSIVE SeqsUpTo(_, _)
SeqsUpTo(S, n) ==
    IF n = 0 THEN {<<>>}
    ELSE LET shorter == SeqsUpTo(S, n - 1)
         IN  shorter \cup {Append(q, x) : q \in shorter, x \in S}

InitDoc ==
    /\ docs \in SeqsUpTo(DocLens, MaxDocs)
    /\ doc_out = <<>>
    /\ StoreIdle /\ RlIdle /\ IdxIdle /\ WinIdle /\ PrmIdle /\ SplitIdle /\ UpIdle /\ IsoIdle

NextDoc ==
    build_doc_context
        /\ UNCHANGED <<store_vars, rl_vars, idx_vars, win_vars, prm_vars, split_vars,
                 up_vars, iso_vars>>

SpecDoc == InitDoc /\ [][NextDoc]_vars

-----------------------------------------------------------------------------
(* File index of a chat turn over arbitrary session records *)

MaxStamp == 3
MaxIndexFiles == 3

IndexEntries ==
    {Entry(fid, fname, t) : fid \in FileIds, fname \in Filenames, t \in 1..MaxStamp}

\* the insertion-ordered mappings file_id -> record; "uploaded_at" is
\* time.time() at insertion, so it does not decrease along a mapping
IndexDicts ==
    {q \in SeqsUpTo(IndexEntries, Cardinality(FileIds)) :
        \A i, j \in 1..Len(q) :
            /\ i # j => q[i].file_id # q[j].file_id
            /\ i < j => q[i].uploaded_at <= q[j].uploaded_at}

build_index ==
    /\ idx_out = <<>>
    /\ idx_out' = [ordered_files |-> OrderedFiles(idx_sd),
                   ordered_context |-> OrderedContext(OrderedFiles(idx_sd))]
    /\ UNCHANGED idx_sd

InitIdx ==
    /\ idx_sd \in {sd \in [images : IndexDicts, csvs : IndexDicts, documents : IndexDicts] :
                      FileCount(sd) <= MaxIndexFiles}
    /\ idx_out = <<>>
    /\ StoreIdle /\ RlIdle /\ DocIdle /\ WinIdle /\ PrmIdle /\ SplitIdle /\ UpIdle /\ IsoIdle

NextIdx ==
    build_index
        /\ UNCHANGED <<store_vars, rl_vars, doc_vars, win_vars, prm_vars, split_vars,
                 up_vars, iso_vars>>

SpecIdx == InitIdx /\ [][NextIdx]_vars

-----------------------------------------------------------------------------
(* The two history windows over arbitrary histories *)

MaxHistoryLen == 12
MaxLimit == 12

\* a history of k turns, user and assistant alternating
HistoryOf(k) ==
    [i \in 1..k |->
        IF i % 2 = 1 THEN UserTurn("m", i) ELSE AssistantTurn("r", i)]

chat_window ==
    /\ win_out' = [endpoint |-> "chat", n |-> HistoryWindow,
                   messages |-> ChatWindow(win_h)]
    /\ UNCHANGED win_h

history_read(limit) ==
    /\ win_out' = [endpoint |-> "get_chat_history", n |-> limit,
                   messages |-> GetChatHistoryMessages(win_h, limit)]
    /\ UNCHANGED win_h

InitWin ==
    /\ win_h \in {HistoryOf(k) : k \in 0..MaxHistoryLen}
    /\ win_out = [endpoint |-> "none", n |-> 0, messages |-> <<>>]
    /\ StoreIdle /\ RlIdle /\ DocIdle /\ IdxIdle /\ PrmIdle /\ SplitIdle /\ UpIdle /\ IsoIdle

WinFrame == UNCHANGED <<store_vars, rl_vars, doc_vars, idx_vars, prm_vars, split_vars,
                 up_vars, iso_vars>>

NextWin ==
    \/ chat_window /\ WinFrame
    \/ \E limit \in 0..MaxLimit : history_read(limit) /\ WinFrame

SpecWin == InitWin /\ [][NextWin]_vars

-----------------------------------------------------------------------------
(* Prompt assembly: the content parts gemini_service.chat builds for one   *)
(* chat request and the completion calls it makes                          *)

PromptImageIds == {"i1", "i2"}

ImageName(fid) == IF fid = "i1" THEN "a.png" ELSE "b.png"

\* the images mapping of a session: up to two images in upload order
PromptImages ==
    {<<>>}
    \cup {<<Entry(a, ImageName(a), 1)>> : a \in PromptImageIds}
    \cup {<<Entry(p[1], ImageName(p[1]), 1), Entry(p[2], ImageName(p[2]), 2)>> :
             p \in {q \in PromptImageIds \X PromptImageIds : q[1] # q[2]}}

PromptCsvs == {<<>>, <<Entry("c1", "t.csv", 0)>>}
PromptDocuments == {<<>>, <<Entry("d1", "d.txt", 3)>>}

Part(kind, ref, body) == [kind |-> kind, ref |-> ref, body |-> body]

HistoryTurnsAll(history) == history

\* "for msg in history[:-1]"
HistoryTurns(history) == SubSeq(history, 1, Len(history) - 1)

\* "if history: ... if history_text: context_parts.append(...)"
HistoryBlock(history) ==
    IF history # <<>> /\ HistoryTurns(history) # <<>>
    THEN <<Part("history", "", HistoryTurns(history))>>
    ELSE <<>>

\* "if ordered_context:"
IndexBlock(ordered_context) ==
    IF ordered_context # <<>> THEN <<Part("index", "", ordered_context)>> ELSE <<>>

\* "if csvs:" one text part for all csv files
CsvBlock(csvs) ==
    IF csvs # <<>> THEN <<Part("csv", "", IdsOf(csvs))>> ELSE <<>>

\* "if documents:" one text part for all documents
DocumentBlock(documents) ==
    IF documents # <<>> THEN <<Part("documents", "", IdsOf(documents))>> ELSE <<>>

\* the exception of Image.open leaves gemini_service.chat
ImageLoadPropagates(loadable) == ~loadable

\* "try: img = Image.open(image_path) ... except Exception as e:" logs and
\* goes on with the next image
ImageLoadAborts(loadable) == FALSE

ImagePartsSkipFailed(img, loadable) ==
    IF loadable
    THEN <<Part("image", img.file_id, <<>>),
           Part("caption", img.file_id, <<img.filename>>)>>
    ELSE <<>>

\* the image and "[Image: {filename} (file_id: {file_id})]", or
\* "[Failed to load image: {filename}]"
ImageParts(img, loadable) ==
    IF loadable
    THEN <<Part("image", img.file_id, <<>>),
           Part("caption", img.file_id, <<img.filename>>)>>
    ELSE <<Part("failed", "", <<img.filename>>)>>

RECURSIVE ImageLoop(_, _)
ImageLoop(images, unloadable) ==
    IF images = <<>> THEN <<>>
    ELSE ImageParts(Head(images), Head(images).file_id \notin unloadable)
            \o ImageLoop(Tail(images), unloadable)

\* "if images:" the loop, then the note "if len(images) > 1"
ImageBlock(images, unloadable) ==
    IF images = <<>> THEN <<>>
    ELSE ImageLoop(images, unloadable)
            \o (IF Len(images) > 1 THEN <<Part("note", "", <<>>)>> ELSE <<>>)

\* context_parts.append(f"\nUser question: {message}")
UserMessage(message) == <<Part("user", "", <<message>>)>>

ContextPartsImagesFirst(history, ordered_context, sd, unloadable, message) ==
    HistoryBlock(history) \o IndexBlock(ordered_context)
        \o ImageBlock(sd.images, unloadable) \o CsvBlock(sd.csvs)
        \o DocumentBlock(sd.documents) \o UserMessage(message)

ContextParts(history, ordered_context, sd, unloadable, message) ==
    HistoryBlock(history) \o IndexBlock(ordered_context) \o CsvBlock(sd.csvs)
        \o DocumentBlock(sd.documents) \o ImageBlock(sd.images, unloadable)
        \o UserMessage(message)

\* the user turn the chat handler appends before it builds the prompt
InFlightTurn(in) == UserTurn(in.message, Len(in.history) + 1)

\* chat.py 47-84 and gemini_service.chat for one request: in.history is the
\* stored history the handler found
build_prompt ==
    LET in == prm_in
        history1  == Append(in.history, InFlightTurn(in))
        all_files == OrderedFiles(in.sd)
        aborted   == \E i \in 1..Len(in.sd.images) :
                        ImageLoadAborts(in.sd.images[i].file_id \notin in.unloadable)
        parts     == ContextParts(ChatWindow(history1), OrderedContext(all_files),
                                  in.sd, in.unloadable, in.message)
    IN  /\ prm_out = <<>>
        /\ prm_out' = IF aborted
                      THEN [parts |-> <<>>, completions |-> <<>>]
                      ELSE [parts |-> parts,
                            completions |-> CompletionCalls(in.gen_ok)]
        /\ UNCHANGED prm_in

InitPrompt ==
    /\ prm_in \in
          {[history |-> HistoryOf(k),
            sd |-> [images |-> imgs, csvs |-> csvs, documents |-> documents],
            unloadable |-> bad, message |-> "q", gen_ok |-> ok] :
             k \in 0..MaxHistoryLen, imgs \in PromptImages,
             bad \in SUBSET PromptImageIds, csvs \in PromptCsvs,
             documents \in PromptDocuments, ok \in BOOLEAN}
    /\ prm_in.unloadable \subseteq DictKeys(prm_in.sd.images)
    /\ prm_out = <<>>
    /\ StoreIdle /\ RlIdle /\ DocIdle /\ IdxIdle /\ WinIdle /\ SplitIdle /\ UpIdle /\ IsoIdle

NextPrompt ==
    build_prompt
        /\ UNCHANGED <<store_vars, rl_vars, doc_vars, idx_vars, win_vars, split_vars,
                 up_vars, iso_vars>>

SpecPrompt == InitPrompt /\ [][NextPrompt]_vars

-----------------------------------------------------------------------------
(* TextSplitter and RecursiveTextSplitter: texts are sequences of characters *)

MaxTextLen == 5
MaxChunkSize == 3
MaxOverlap == 1

Chars == {"a", ".", " ", "\n"}
Whitespace == {" ", "\n"}

\* self.separators = ["\n\n", "\n", ". ", " "]
separators == << <<"\n", "\n">>, <<"\n">>, <<".", " ">>, <<" ">> >>

\* the positions at which sep occurs in text
Occurrences(text, sep) ==
    {i \in 1..(Len(text) - Len(sep) + 1) : SubSeq(text, i, i + Len(sep) - 1) = sep}

\* str.split(sep): cut at the non-overlapping occurrences of sep, left to right
RECURSIVE PySplit(_, _)
PySplit(text, sep) ==
    IF Occurrences(text, sep) = {} THEN <<text>>
    ELSE LET i == CHOOSE x \in Occurrences(text, sep) :
                      \A y \in Occurrences(text, sep) : x <= y
         IN  <<SubSeq(text, 1, i - 1)>>
                \o PySplit(SubSeq(text, i + Len(sep), Len(text)), sep)

\* str.strip()
Strip(text) ==
    LET solid == {i \in 1..Len(text) : text[i] \notin Whitespace}
    IN  IF solid = {} THEN <<>>
        ELSE SubSeq(text, CHOOSE x \in solid : \A y \in solid : x <= y,
                          CHOOSE x \in solid : \A y \in solid : x >= y)

RECURSIVE SplitRecursive(_, _, _, _)
RECURSIVE SplitLoop(_, _, _, _, _, _)

\* "for split in splits:" with the chunks and current_chunk built so far, then
\* "if current_chunk: chunks.append(current_chunk.strip())"
SplitLoop(splits, chunks, current_chunk, seps, chunk_size, chunk_overlap) ==
    IF splits = <<>>
    THEN IF current_chunk # <<>> THEN Append(chunks, Strip(current_chunk)) ELSE chunks
    ELSE LET split     == Head(splits)
             separator == Head(seps)
             rest      == Tail(splits)
         IN  IF Len(current_chunk) + Len(split) + Len(separator) > chunk_size
             THEN IF current_chunk # <<>>
                  THEN SplitLoop(rest, Append(chunks, Strip(current_chunk)),
                                 IF chunk_overlap > 0
                                 THEN PySliceFrom(current_chunk, -chunk_overlap)
                                         \o separator \o split
                                 ELSE split,
                                 seps, chunk_size, chunk_overlap)
                  ELSE IF Len(split) > chunk_size
                       THEN SplitLoop(rest,
                                      chunks \o SplitRecursive(split, Tail(seps),
                                                               chunk_size, chunk_overlap),
                                      current_chunk, seps, chunk_size, chunk_overlap)
                       ELSE SplitLoop(rest, chunks, split, seps, chunk_size,
                                      chunk_overlap)
             ELSE SplitLoop(rest, chunks,
                            IF current_chunk # <<>>
                            THEN current_chunk \o separator \o split
                            ELSE split,
                            seps, chunk_size, chunk_overlap)

\* RecursiveTextSplitter._split_recursive
SplitRecursive(text, seps, chunk_size, chunk_overlap) ==
    IF seps = <<>> \/ Len(text) <= chunk_size
    THEN IF text # <<>> THEN <<text>> ELSE <<>>
    ELSE SplitLoop(PySplit(text, Head(seps)), <<>>, <<>>, seps, chunk_size,
                   chunk_overlap)

\* RecursiveTextSplitter(chunk_size, chunk_overlap).split_text(text)
split_text ==
    /\ split_out = <<>>
    /\ split_out' = [splitter |-> "RecursiveTextSplitter",
                     chunks |-> SplitRecursive(split_in.text, separators,
                                               split_in.chunk_size,
                                               split_in.chunk_overlap)]
    /\ UNCHANGED split_in

\* TextSplitter: separator = "\n\n"
DefaultSeparator == <<"\n", "\n">>

\* the positions of a whitespace character that follows a sentence end
SentenceBreaks(text) ==
    {i \in 2..Len(text) : text[i - 1] = "." /\ text[i] \in Whitespace}

\* the last position of the run of whitespace that starts at i
RunEnd(text, i) ==
    CHOOSE j \in i..Len(text) :
        /\ \A k \in i..j : text[k] \in Whitespace
        /\ j = Len(text) \/ text[j + 1] \notin Whitespace

\* re.split(r'(?<=[.!?])\s+', split)
RECURSIVE SentenceSplit(_)
SentenceSplit(text) ==
    IF SentenceBreaks(text) = {} THEN <<text>>
    ELSE LET i == CHOOSE x \in SentenceBreaks(text) :
                      \A y \in SentenceBreaks(text) : x <= y
         IN  <<SubSeq(text, 1, i - 1)>>
                \o SentenceSplit(SubSeq(text, RunEnd(text, i) + 1, Len(text)))

\* "for sentence in sentences:"; the result is the pair (chunks, current_chunk)
RECURSIVE SentenceLoop(_, _, _, _)
SentenceLoop(sentences, chunks, current_chunk, chunk_size) ==
    IF sentences = <<>> THEN <<chunks, current_chunk>>
    ELSE LET sentence == Head(sentences)
         IN  IF Len(current_chunk) + Len(sentence) > chunk_size
             THEN IF current_chunk # <<>>
                  THEN SentenceLoop(Tail(sentences),
                                    Append(chunks, Strip(current_chunk)),
                                    sentence, chunk_size)
                  ELSE SentenceLoop(Tail(sentences), chunks, current_chunk,
                                    chunk_size)
             ELSE SentenceLoop(Tail(sentences), chunks,
                               current_chunk \o <<" ">> \o sentence, chunk_size)

\* "for split in splits:" of TextSplitter.split_text, then the remaining chunk
RECURSIVE ParagraphLoop(_, _, _, _, _)
ParagraphLoop(splits, chunks, current_chunk, chunk_size, chunk_overlap) ==
    IF splits = <<>>
    THEN IF current_chunk # <<>> THEN Append(chunks, Strip(current_chunk)) ELSE chunks
    ELSE LET split == Head(splits)
             rest  == Tail(splits)
         IN  IF Len(current_chunk) + Len(split) > chunk_size
             THEN LET emitted == IF current_chunk # <<>>
                                 THEN Append(chunks, Strip(current_chunk))
                                 ELSE chunks
                      seed    == IF current_chunk # <<>> /\ chunk_overlap > 0
                                 THEN PySliceFrom(current_chunk, -chunk_overlap)
                                 ELSE <<>>
                      inner   == SentenceLoop(SentenceSplit(split), emitted, seed,
                                              chunk_size)
                 IN  IF Len(split) > chunk_size
                     THEN ParagraphLoop(rest, inner[1], inner[2], chunk_size,
                                        chunk_overlap)
                     ELSE ParagraphLoop(rest, emitted, split, chunk_size,
                                        chunk_overlap)
             ELSE ParagraphLoop(rest, chunks,
                                current_chunk \o DefaultSeparator \o split,
                                chunk_size, chunk_overlap)

\* "return [c for c in chunks if c]"
NonEmptyChunks(chunks) == SelectSeq(chunks, LAMBDA c : c # <<>>)

\* TextSplitter(chunk_size, chunk_overlap).split_text(text)
TextSplitter_split_text ==
    /\ split_out = <<>>
    /\ split_out' = [splitter |-> "TextSplitter",
                     chunks |-> NonEmptyChunks(
                                    ParagraphLoop(PySplit(split_in.text, DefaultSeparator),
                                                  <<>>, <<>>, split_in.chunk_size,
                                                  split_in.chunk_overlap))]
    /\ UNCHANGED split_in

RECURSIVE TextsUpTo(_)
TextsUpTo(n) ==
    IF n = 0 THEN {<<>>}
    ELSE LET shorter == TextsUpTo(n - 1)
         IN  shorter \cup {Append(t, c) : t \in shorter, c \in Chars}

InitSplit ==
    /\ split_in \in [text : TextsUpTo(MaxTextLen), chunk_size : 1..MaxChunkSize,
                     chunk_overlap : 0..MaxOverlap]
    /\ split_out = <<>>
    /\ StoreIdle /\ RlIdle /\ DocIdle /\ IdxIdle /\ WinIdle /\ PrmIdle
    /\ UpIdle /\ IsoIdle

NextSplit ==
    \/ split_text
        /\ UNCHANGED <<store_vars, rl_vars, doc_vars, idx_vars, win_vars, prm_vars,
                       up_vars, iso_vars>>
    \/ TextSplitter_split_text
        /\ UNCHANGED <<store_vars, rl_vars, doc_vars, idx_vars, win_vars, prm_vars,
                       up_vars, iso_vars>>

SpecSplit == InitSplit /\ [][NextSplit]_vars

-----------------------------------------------------------------------------
(* Properties: cascading history clear *)

SingleDeletes == {"delete_single_image", "delete_single_csv", "delete_single_document"}
ClearKinds == {"delete_all_images", "delete_all_csvs", "delete_all_documents"}

HistoryOrAbsent(h, s) == IF s \in DOMAIN h THEN <<h[s]>> ELSE <<>>

\* the centralized rule on the post-deletion state
CascadeRule(s) ==
    /\ s \in DOMAIN sessions'
    /\ IF FileCount(sessions'[s]) = 0
       THEN s \notin DOMAIN chat_history'
       ELSE HistoryOrAbsent(chat_history', s) = HistoryOrAbsent(chat_history, s)

\* C1: a single-artifact deletion (image, csv or document) on an existing
\* session and file id removes the session's history if and only if all three
\* mappings are empty afterwards; otherwise the history is exactly as before.
C1_SingleDeleteCascade ==
    [][(resp'.name \in SingleDeletes /\ resp'.status = "deleted"
            /\ sessions' # sessions)
         => CascadeRule(resp'.sid)]_vars

\* a single deletion left another artifact behind and the history is still there
C1_Witness ==
    /\ resp.name \in SingleDeletes /\ resp.status = "deleted"
    /\ resp.sid \in DOMAIN sessions
    /\ FileCount(sessions[resp.sid]) > 0
    /\ resp.sid \in DOMAIN chat_history
    /\ Len(chat_history[resp.sid]) > 0

-----------------------------------------------------------------------------
(* Properties: session lifecycle *)

-----------------------------------------------------------------------------
(* Properties: history windows *)

\* the last min(n, |h|) turns of h in insertion order
IsLastTurns(w, h, n) ==
    /\ Len(w) = Min(n, Len(h))
    /\ \A i \in 1..Len(w) : w[i] = h[Len(h) - Len(w) + i]

\* C4 as stated: for every n >= 0 the window is the last min(n, |h|) turns.
C4_Original ==
    win_out.endpoint # "none" => IsLastTurns(win_out.messages, win_h, win_out.n)

\* C4: for every history h and every n >= 1 the prompt window (n = 10) and the
\* window of the history-read endpoint (limit = n) are the last min(n, |h|)
\* turns of h in insertion order; limit = 0 returns the whole history.
C4_WindowIsLastTurns ==
    /\ (win_out.endpoint # "none" /\ win_out.n >= 1)
          => IsLastTurns(win_out.messages, win_h, win_out.n)
    /\ (win_out.endpoint = "get_chat_history" /\ win_out.n = 0)
          => win_out.messages = win_h

\* the prompt window cut a history longer than 10 turns
C4_Witness ==
    /\ win_out.endpoint = "chat"
    /\ Len(win_h) > HistoryWindow
    /\ Len(win_out.messages) = HistoryWindow

-----------------------------------------------------------------------------
(* Properties: rate limiter *)

IsDispatch == rl_count' = rl_count + 1
IsResponse == rl_count' = rl_count /\ rl_inflight' # rl_inflight

LogTimes(c) == [i \in 1..Len(LogOf(c)) |-> LogOf(c)[i].now]
LogDecisions(c) == [i \in 1..Len(LogOf(c)) |-> LogOf(c)[i].admitted]

\* C5: admission of a request of client c at time now: every stored timestamp
\* t with now - t >= 60 is removed; the request is rejected iff the remaining
\* count is >= limit; acceptance appends exactly now, rejection appends nothing.
\* With limit = 3, requests at 0, 1, 2 are admitted, one at 3 is rejected and
\* one at 61 is admitted.
C5_Admission ==
    /\ [][IsDispatch =>
            LET c == rl_resp'.client
                kept == SelectSeq(RequestsOf(c), LAMBDA t : ~(rl_now - t >= 60))
                rejected == rl_resp'.status = 429
            IN  /\ rejected <=> Len(kept) >= rl_limit
                /\ rl_requests'[c] = IF rejected THEN kept ELSE kept \o <<rl_now>>]_vars
    /\ [](\A c \in Clients :
            (rl_limit = 3 /\ LogTimes(c) = <<0, 1, 2, 3, 61>>)
               => LogDecisions(c) = <<TRUE, TRUE, TRUE, FALSE, TRUE>>)

\* the run of the example: limit 3, requests at 0, 1, 2, 3 and 61
C5_Witness ==
    /\ rl_limit = 3
    /\ \E c \in Clients :
          /\ LogTimes(c) = <<0, 1, 2, 3, 61>>
          /\ LogDecisions(c) = <<TRUE, TRUE, TRUE, FALSE, TRUE>>

AdmittedIn(c, lo, hi) ==
    {i \in 1..Len(LogOf(c)) :
        LogOf(c)[i].admitted /\ lo < LogOf(c)[i].now /\ LogOf(c)[i].now <= hi}

\* C6: with non-decreasing arrival times, the admitted requests of a client
\* with timestamps in any interval (a, a+60] number at most limit, and the
\* stored list of the client never holds more than limit entries.
C6_SlidingWindowBound ==
    \A c \in Clients :
        /\ Len(RequestsOf(c)) <= rl_limit
        /\ \A a \in (0 - 60)..(rl_now) :
              Cardinality(AdmittedIn(c, a, a + 60)) <= rl_limit

\* a client filled a window, was rejected, and was admitted again after it rolled
C6_Witness ==
    \E c \in Clients :
        /\ Cardinality(AdmittedIn(c, 0 - 1, 59)) = rl_limit
        /\ \E i \in 1..Len(LogOf(c)) : ~LogOf(c)[i].admitted
        /\ Cardinality(AdmittedIn(c, 0 - 1, rl_now)) > rl_limit

\* C7 as stated: the remaining-quota value of an admitted request is limit minus
\* the count right after its own admission, whatever happens while it is suspended.
C7_Original ==
    rl_resp.status = 200 =>
        /\ rl_resp.remaining = rl_limit - rl_resp.count_after_admit
        /\ rl_resp.remaining >= 0

\* C7: the remaining-quota value of an admitted request is limit minus the
\* number of the client's stored timestamps when the response is produced; it
\* is never negative, and it equals limit minus the count right after the
\* request's own admission when no other request of that client was dispatched
\* while the request was suspended.
C7_RemainingAtResponse ==
    [][IsResponse =>
         LET r == rl_resp'
         IN  /\ r.status = 200
             /\ r.remaining = rl_limit - Len(rl_requests'[r.client])
             /\ r.remaining >= 0
             /\ r.undisturbed => r.remaining = rl_limit - r.count_after_admit]_vars

\* a response whose quota differs from the one right after its admission
C7_Witness ==
    /\ rl_resp.status = 200
    /\ ~rl_resp.undisturbed
    /\ rl_resp.remaining # rl_limit - rl_resp.count_after_admit

\* C39: with limit >= 1, a request of a client that had no admitted request
\* during the preceding 60 seconds is admitted; rejected requests in between
\* do not count, so a throttled client is admitted again at the latest 60
\* seconds after its last admitted request.
C39_ReadmittedAfterWindow ==
    [][(IsDispatch /\ rl_limit >= 1) =>
         LET c == rl_resp'.client
         IN  (\A i \in 1..Len(LogOf(c)) :
                  LogOf(c)[i].admitted => rl_now - LogOf(c)[i].now >= Window)
                 => rl_resp'.status # 429]_vars

\* a throttled client, rejected inside the window, is admitted 60 seconds after
\* its last admitted request although a rejected request is more recent
C39_Witness ==
    /\ rl_limit = 1
    /\ \E c \in Clients :
          /\ LogTimes(c) = <<0, 3, Window>>
          /\ LogDecisions(c) = <<TRUE, FALSE, TRUE>>

\* the decisions of the two runs on the requests of client c
DecisionsOf(c, run) ==
    LET own == SelectSeq(iso_log, LAMBDA e : e.client = c)
    IN  [i \in 1..Len(own) |-> IF run = 1 THEN own[i].first ELSE own[i].second]

\* C40: admission is per client: in two runs on request sequences that agree
\* on the requests of client "a" and their times and differ only in the
\* requests of other clients, every request of "a" gets the same decision and
\* the stored timestamps of "a" are the same.
C40_PerClientAdmission ==
    /\ DecisionsOf("a", 1) = DecisionsOf("a", 2)
    /\ ClientList(iso_requests[1], "a") = ClientList(iso_requests[2], "a")

\* client "a" has been admitted and rejected while the other client is
\* throttled in one run and has never sent in the other
C40_Witness ==
    /\ TRUE \in {DecisionsOf("a", 1)[i] : i \in 1..Len(DecisionsOf("a", 1))}
    /\ FALSE \in {DecisionsOf("a", 1)[i] : i \in 1..Len(DecisionsOf("a", 1))}
    /\ Len(ClientList(iso_requests[1], "b")) = rl_limit
    /\ "b" \notin DOMAIN iso_requests[2]

-----------------------------------------------------------------------------
(* Properties: file index *)

KindRank(kind) ==
    CASE kind = "images" -> 1 [] kind = "csvs" -> 2 [] kind = "documents" -> 3
IdRank(fid) == CASE fid = "f1" -> 1 [] fid = "f2" -> 2

\* the position of file fid in the mapping of its kind
PositionIn(sd, kind, fid) ==
    CHOOSE i \in 1..Len(sd[kind]) : sd[kind][i].file_id = fid

Stamps(files) == [i \in 1..Len(files) |-> files[i].uploaded_at]

\* C8: the file index of a chat turn holds each artifact of all three kinds
\* exactly once, numbered consecutively from 1, in non-decreasing uploadedAt
\* order, whatever the kinds and the insertion order into the mappings.
C8_IndexSortedComplete ==
    idx_out # <<>> =>
        LET f == idx_out.ordered_files
            c == idx_out.ordered_context
        IN  /\ Len(f) = FileCount(idx_sd)
            /\ \A kind \in KindSet : \A i \in 1..Len(idx_sd[kind]) :
                  Cardinality({j \in 1..Len(f) :
                      /\ f[j].type = kind
                      /\ f[j].file_id = idx_sd[kind][i].file_id
                      /\ f[j].filename = idx_sd[kind][i].filename
                      /\ f[j].uploaded_at = idx_sd[kind][i].uploaded_at}) = 1
            /\ \A i, j \in 1..Len(f) : i < j => f[i].uploaded_at <= f[j].uploaded_at
            /\ Len(c) = Len(f)
            /\ \A i \in 1..Len(c) :
                  /\ c[i].n = i
                  /\ c[i].type = Upper(f[i].type)
                  /\ c[i].filename = f[i].filename

\* uploadedAt 3, 1, 2 over an image, a csv and a document is listed as 1, 2, 3
C8_Witness ==
    /\ idx_out # <<>>
    /\ Stamps(idx_sd.images) = <<3>>
    /\ Stamps(idx_sd.csvs) = <<1>>
    /\ Stamps(idx_sd.documents) = <<2>>
    /\ Stamps(idx_out.ordered_files) = <<1, 2, 3>>
    /\ [i \in 1..3 |-> idx_out.ordered_context[i].type] = <<"CSVS", "DOCUMENTS", "IMAGES">>

\* C9 as stated: artifacts with equal uploadedAt are listed in artifact id order.
C9_Original ==
    idx_out # <<>> =>
        LET f == idx_out.ordered_files
        IN  \A i, j \in 1..Len(f) :
               (i < j /\ f[i].uploaded_at = f[j].uploaded_at)
                  => IdRank(f[i].file_id) <= IdRank(f[j].file_id)

\* C9: artifacts with equal uploadedAt are listed in collection order: images
\* before csvs before documents, and within one kind in the insertion order of
\* its mapping; the artifact id plays no part.
C9_TiesKeepCollectionOrder ==
    idx_out # <<>> =>
        LET f == idx_out.ordered_files
        IN  \A i, j \in 1..Len(f) :
               (i < j /\ f[i].uploaded_at = f[j].uploaded_at)
                  => \/ KindRank(f[i].type) < KindRank(f[j].type)
                     \/ /\ f[i].type = f[j].type
                        /\ PositionIn(idx_sd, f[i].type, f[i].file_id)
                              < PositionIn(idx_sd, f[j].type, f[j].file_id)

\* two artifacts of one kind with equal uploadedAt listed against their id order
C9_Witness ==
    /\ idx_out # <<>>
    /\ \E i, j \in 1..Len(idx_out.ordered_files) :
          LET f == idx_out.ordered_files
          IN  /\ i < j
              /\ f[i].uploaded_at = f[j].uploaded_at
              /\ f[i].type = f[j].type
              /\ IdRank(f[i].file_id) > IdRank(f[j].file_id)

-----------------------------------------------------------------------------
(* Properties: document block *)

RECURSIVE SumSeq(_)
SumSeq(q) == IF q = <<>> THEN 0 ELSE q[Len(q)] + SumSeq(SubSeq(q, 1, Len(q) - 1))

\* document characters placed in the block, per-document markers included
PlacedChars(out) ==
    SumSeq([i \in 1..Len(out.parts) |-> out.parts[i].text + out.parts[i].marker])

HasRemainingMarker(out) ==
    out.parts # <<>> /\ out.parts[Len(out.parts)].remaining_marker

\* what one document contributes when nothing else cuts it
CappedLen(len) == IF len > 15000 THEN 15000 + 25 ELSE len
CappedSum(d, k) == SumSeq([i \in 1..k |-> CappedLen(d[i])])

\* the first document whose capped text does not fit the budget any more
Overflows(d, k) == CappedSum(d, k) > 50000 /\ CappedSum(d, k - 1) <= 50000

\* C10 as stated: whenever the documents of the turn together hold more text
\* than the global cap (three documents of 20000 characters), the block is cut
\* to the budget and ends with the remaining-documents marker.
C10_Original ==
    (doc_out # <<>> /\ SumSeq(docs) > 50000)
        => HasRemainingMarker(doc_out) /\ PlacedChars(doc_out) <= 50000

\* C10: three documents of 20000 characters each contribute 15000 characters
\* plus the per-document marker each (45075 in all) and no remaining-documents
\* marker. In general the block never holds more than 50000 document
\* characters; it ends with the remaining-documents marker exactly when some
\* document's capped text would push the running total over 50000 while more
\* than 1000 characters of budget are left, and it then holds exactly 50000.
C10_DocumentBudget ==
    doc_out # <<>> =>
        /\ docs = <<20000, 20000, 20000>> =>
              /\ doc_out.parts = [i \in 1..3 |-> DocPart(i, 15000, 25, FALSE)]
              /\ PlacedChars(doc_out) = 45075
        /\ PlacedChars(doc_out) <= 50000
        /\ HasRemainingMarker(doc_out) <=>
              \E k \in 1..Len(docs) :
                  Overflows(docs, k) /\ 50000 - CappedSum(docs, k - 1) > 1000
        /\ HasRemainingMarker(doc_out) => PlacedChars(doc_out) = 50000
        /\ \A i \in 1..Len(doc_out.parts) :
              doc_out.parts[i].remaining_marker => i = Len(doc_out.parts)

\* the block built from three documents of 20000 characters
C10_Witness ==
    /\ docs = <<20000, 20000, 20000>>
    /\ doc_out # <<>>
    /\ doc_out.present
    /\ ~HasRemainingMarker(doc_out)

\* the document at which the loop stops on the global cap, 0 when it never stops
StopDoc(d) ==
    IF \E k \in 1..Len(d) : Overflows(d, k)
    THEN CHOOSE k \in 1..Len(d) : Overflows(d, k)
    ELSE 0

\* the budget left when the loop stops at document k
BudgetLeftAt(d, k) == 50000 - CappedSum(d, k - 1)

\* documents with a part in the block
PlacedDocs(out) == {out.parts[i].doc : i \in 1..Len(out.parts)}

\* C11: for any number and sizes of documents, the document characters placed
\* in the block (truncated texts with their per-document markers, without the
\* header lines and without the remaining-documents marker) sum to at most
\* 50000, each part holds at most the per-document cap plus its marker, and
\* the parts follow the iteration order of the documents.
C11_GlobalBudget ==
    doc_out # <<>> =>
        /\ SumSeq([i \in 1..Len(doc_out.parts) |->
                      doc_out.parts[i].text + doc_out.parts[i].marker]) <= 50000
        /\ \A i \in 1..Len(doc_out.parts) :
              /\ doc_out.parts[i].doc = i
              /\ doc_out.parts[i].text <= Min(docs[i], 15000)
              /\ doc_out.parts[i].marker <= 25

\* more document text than the budget was offered and the block is filled to the cap
C11_Witness ==
    /\ doc_out # <<>>
    /\ Len(docs) = MaxDocs
    /\ SumSeq(docs) > 50000
    /\ PlacedChars(doc_out) = 50000

C13_Original ==
    (doc_out # <<>> /\ StopDoc(docs) # 0) =>
        (StopDoc(docs) \in PlacedDocs(doc_out)
            <=> BudgetLeftAt(docs, StopDoc(docs)) >= 1000)

\* C13: when a document would exceed the global cap, a partial copy of it, cut
\* to the remaining budget and followed by the remaining-documents marker, is
\* included if and only if the remaining budget is greater than 1000; with a
\* remaining budget of exactly 1000 or less nothing of it is included.
C13_PartialAbove1000 ==
    (doc_out # <<>> /\ StopDoc(docs) # 0) =>
        LET k == StopDoc(docs)
            left == BudgetLeftAt(docs, k)
        IN  /\ k \in PlacedDocs(doc_out) <=> left > 1000
            /\ left <= 1000 => Len(doc_out.parts) = k - 1
            /\ left > 1000 =>
                  /\ Len(doc_out.parts) = k
                  /\ doc_out.parts[k].text + doc_out.parts[k].marker = left
                  /\ doc_out.parts[k].remaining_marker

\* the loop stopped with exactly 1000 characters of budget left: no partial copy
C13_Witness ==
    /\ doc_out # <<>>
    /\ StopDoc(docs) # 0
    /\ BudgetLeftAt(docs, StopDoc(docs)) = 1000
    /\ StopDoc(docs) \notin PlacedDocs(doc_out)

\* C14: whenever the global cap stops document processing, no later document
\* contributes text and the block ends with the remaining-documents marker,
\* with a partial document or without one.
C14_StopEndsWithMarker ==
    (doc_out # <<>> /\ StopDoc(docs) # 0) =>
        /\ \A j \in PlacedDocs(doc_out) : j <= StopDoc(docs)
        /\ HasRemainingMarker(doc_out)

-----------------------------------------------------------------------------
(* Properties: artifact records, not-found outcomes, session lifecycle *)

Uploads == {"upload_image", "upload_csv", "upload_csv_url", "upload_document"}
ReadPaths == {"list_images", "list_csvs", "list_documents", "get_document_info",
              "get_session_info", "get_chat_history"}
DeletePaths == SingleDeletes \cup ClearKinds \cup {"delete_session", "clear_chat_history"}

KindOfHandler(name) ==
    CASE name \in {"upload_image", "delete_single_image", "delete_all_images"} -> "images"
      [] name \in {"upload_csv", "upload_csv_url", "delete_single_csv", "delete_all_csvs"} -> "csvs"
      [] OTHER -> "documents"

EntriesOf(sd, kind) == {sd[kind][i] : i \in 1..Len(sd[kind])}

SessionOrAbsent(m, s) == IF s \in DOMAIN m THEN <<m[s]>> ELSE <<>>

\* a step of a handler (time passing alone leaves the last response in place)
HandlerStep == resp' # resp \/ sessions' # sessions \/ chat_history' # chat_history

\* C15: an upload never overwrites an existing record: every artifact record of
\* the session before the upload is still there with the same id and contents
\* afterwards, and the matching mapping has grown by exactly one entry, for
\* every id the generator can return.
C15_NeverOverwrites ==
    [][(HandlerStep /\ resp'.name \in Uploads /\ resp'.status = "uploaded"
            /\ resp'.sid \in DOMAIN sessions)
         => LET s == resp'.sid
                kind == KindOfHandler(resp'.name)
            IN  /\ \A k \in KindSet :
                      EntriesOf(sessions[s], k) \subseteq EntriesOf(sessions'[s], k)
                /\ Len(sessions'[s][kind]) = Len(sessions[s][kind]) + 1]_vars

UnknownId(name, s, fid) ==
    \/ s \notin DOMAIN sessions
    \/ name \in SingleDeletes /\ ~DictHas(sessions[s][KindOfHandler(name)], fid)

C17_NoFabrication ==
    [][/\ (resp'.name \in ReadPaths \cup DeletePaths)
            => /\ DOMAIN sessions' \subseteq DOMAIN sessions
               /\ DOMAIN chat_history' \subseteq DOMAIN chat_history
       /\ (resp'.name \in ReadPaths)
            => sessions' = sessions /\ chat_history' = chat_history
       /\ ~(DOMAIN sessions' \subseteq DOMAIN sessions)
            => resp'.name \in Uploads]_vars

\* session info was read for an id unknown to both maps while another session exists
C17_Witness ==
    /\ resp.name = "get_session_info" /\ resp.status = "404"
    /\ resp.sid \notin DOMAIN sessions
    /\ resp.sid \notin DOMAIN chat_history
    /\ sessions # <<>>
    /\ chat_history # <<>>

\* C18: delete_session on an existing session removes the session record and
\* the session's history in one operation: afterwards the id is in neither
\* map, and every other session and history is unchanged.
C18_DeleteSessionRemovesBoth ==
    [][(resp'.name = "delete_session" /\ resp'.status = "deleted")
         => LET s == resp'.sid
            IN  /\ s \in DOMAIN sessions
                /\ s \notin DOMAIN sessions'
                /\ s \notin DOMAIN chat_history'
                /\ \A o \in SessionPair \ {s} :
                      /\ SessionOrAbsent(sessions', o) = SessionOrAbsent(sessions, o)
                      /\ HistoryOrAbsent(chat_history', o) = HistoryOrAbsent(chat_history, o)]_vars

\* a session that had chat turns was deleted while another session with a
\* history of its own stayed
C18_Witness ==
    /\ resp.name = "delete_session" /\ resp.status = "deleted"
    /\ resp.sid \notin DOMAIN sessions
    /\ resp.sid \notin DOMAIN chat_history
    /\ \E o \in DOMAIN sessions :
          o # resp.sid /\ o \in DOMAIN chat_history /\ FileCount(sessions[o]) > 0

\* C19: every mutating operation on a session (successful upload, single
\* deletion, clear-kind operation, chat turn) leaves lastActivity equal to the
\* time of that operation.
C19_LastActivityOnEveryMutation ==
    [][(/\ HandlerStep
        /\ \/ resp'.name \in Uploads /\ resp'.status = "uploaded"
           \/ resp'.name \in SingleDeletes \cup ClearKinds /\ resp'.status = "deleted"
           \/ resp'.name = "chat" /\ resp'.status = "ok"
        /\ resp'.sid \in DOMAIN sessions')
         => sessions'[resp'.sid].last_activity = clock']_vars

\* C20 as stated: after an artifact removal or clear-kind operation leaves the
\* session without artifacts, the session record no longer exists.
C20_Original ==
    (resp.name \in SingleDeletes \cup ClearKinds /\ resp.status = "deleted"
        /\ resp.sid \in DOMAIN sessions)
      => FileCount(sessions[resp.sid]) > 0

\* C20: a session record is removed by delete_session only; the cascade after
\* an artifact removal or clear-kind operation removes the history and leaves
\* the session record in place with its three mappings and its creation time.
C20_OnlyDeleteSessionRemoves ==
    [][/\ (resp'.name \in SingleDeletes \cup ClearKinds /\ resp'.status = "deleted")
            => /\ resp'.sid \in DOMAIN sessions'
               /\ resp'.sid \in DOMAIN sessions
               /\ sessions'[resp'.sid].created_at = sessions[resp'.sid].created_at
       /\ \A s \in DOMAIN sessions \ DOMAIN sessions' :
             resp'.name = "delete_session" /\ resp'.sid = s]_vars

\* the last artifact of a session with chat turns was removed: the history is
\* gone, the emptied session record is still there
C20_Witness ==
    /\ resp.name \in SingleDeletes /\ resp.status = "deleted"
    /\ resp.sid \in chat_refs
    /\ resp.sid \notin DOMAIN chat_history
    /\ resp.sid \in DOMAIN sessions
    /\ FileCount(sessions[resp.sid]) = 0

-----------------------------------------------------------------------------
(* Properties: shape of session records, shape of histories *)

\* C21: in every reachable state every session record has all three mappings
\* images, csvs and documents (possibly empty), after any sequence of uploads,
\* deletions, clear-kind operations and chat calls.
C21_AllMappingsPresent ==
    \A s \in DOMAIN sessions : KindSet \subseteq DOMAIN sessions[s]

\* a record created by an image upload whose only artifact has been removed
\* again: all three mappings are there and empty
C21_Witness ==
    /\ resp.name = "delete_single_image" /\ resp.status = "deleted"
    /\ "s1" \in DOMAIN sessions
    /\ KindSet \subseteq DOMAIN sessions["s1"]
    /\ \A k \in KindSet : sessions["s1"][k] = <<>>

IsPrefix(a, b) == Len(a) <= Len(b) /\ SubSeq(b, 1, Len(a)) = a

\* C22: the stored history of a session is append-only except for
\* whole-session clearing: every step either appends turns at the end of the
\* stored sequence or removes the whole sequence; no step removes or replaces
\* a proper part of the stored turns.
C22_AppendOnly ==
    [][\A s \in DOMAIN chat_history :
          \/ s \notin DOMAIN chat_history'
          \/ IsPrefix(chat_history[s], chat_history'[s])]_vars

\* a turn appended behind a turn stored by an earlier request
C22_Witness ==
    /\ resp.name = "chat" /\ resp.status = "500"
    /\ "s1" \in DOMAIN chat_history
    /\ Len(chat_history["s1"]) = 2
    /\ chat_history["s1"][2].role = "user"

StrictlyIncreasing(h) ==
    \A i \in 1..(Len(h) - 1) : h[i].timestamp < h[i + 1].timestamp

NonDecreasing(h) ==
    \A i \in 1..(Len(h) - 1) : h[i].timestamp <= h[i + 1].timestamp

\* C23 as stated: the turns of each history are strictly increasing in
\* timestamp in their stored order.
C23_Original ==
    \A s \in DOMAIN chat_history : StrictlyIncreasing(chat_history[s])

\* C23: with a clock whose readings never decrease, the turns of each history
\* are non-decreasing in timestamp in their stored order; two neighbouring
\* turns have the same timestamp when the clock reads the same value twice.
C23_TimestampsNonDecreasing ==
    \A s \in DOMAIN chat_history : NonDecreasing(chat_history[s])

\* a user turn and its assistant turn stamped with the same reading
C23_Witness ==
    /\ "s1" \in DOMAIN chat_history
    /\ Len(chat_history["s1"]) = 2
    /\ chat_history["s1"][2].role = "assistant"
    /\ chat_history["s1"][1].timestamp = chat_history["s1"][2].timestamp

-----------------------------------------------------------------------------
(* Properties: failures inside a chat turn and inside a deletion *)

\* C27: a completion failure is terminal for the turn: the completion
\* interface is called exactly once per chat request, the failure is surfaced
\* as an error outcome, no assistant turn is appended and last_activity is not
\* updated.
C27_CompletionFailureTerminal ==
    [][(HandlerStep /\ resp'.name = "chat") =>
          LET s  == resp'.sid
              h0 == IF s \in DOMAIN chat_history THEN chat_history[s] ELSE <<>>
              h1 == chat_history'[s]
          IN  /\ Len(resp'.completions) = 1
              /\ resp'.completions[1] = "raised" =>
                    /\ resp'.status = "500"
                    /\ \A i \in (Len(h0) + 1)..Len(h1) : h1[i].role # "assistant"
                    /\ IsPrefix(h0, h1)
                    /\ sessions' = sessions]_vars

\* a failed turn on a session that has a record and an earlier activity time
C27_Witness ==
    /\ resp.name = "chat" /\ resp.completions = <<"raised">>
    /\ "s1" \in DOMAIN sessions
    /\ sessions["s1"].last_activity < clock

\* C28: a failure to delete a backing file never aborts the surrounding
\* operation: single-delete, clear-kind and delete_session still remove the
\* in-memory record, still apply the cascade check and report success.
C28_UnlinkFailureNeverAborts ==
    resp.unlink_failed =>
        LET s == resp.sid
        IN  /\ resp.status = "deleted"
            /\ resp.name \in SingleDeletes =>
                  /\ s \in DOMAIN sessions
                  /\ ~DictHas(sessions[s][KindOfHandler(resp.name)], resp.fid)
                  /\ FileCount(sessions[s]) = 0 => s \notin DOMAIN chat_history
            /\ resp.name \in ClearKinds =>
                  /\ s \in DOMAIN sessions
                  /\ sessions[s][KindOfHandler(resp.name)] = <<>>
                  /\ FileCount(sessions[s]) = 0 => s \notin DOMAIN chat_history
            /\ resp.name = "delete_session" =>
                  /\ s \notin DOMAIN sessions
                  /\ s \notin DOMAIN chat_history

\* delete_session went through although no backing file could be removed
C28_Witness ==
    /\ resp.name = "delete_session" /\ resp.unlink_failed
    /\ resp.status = "deleted"
    /\ resp.sid \notin DOMAIN sessions

-----------------------------------------------------------------------------
(* Properties: content parts of one completion call *)

BlockRank(kind) ==
    CASE kind = "history" -> 1
      [] kind = "index" -> 2
      [] kind = "csv" -> 3
      [] kind = "documents" -> 4
      [] kind \in {"image", "caption", "failed", "note"} -> 5
      [] kind = "user" -> 6

PartsOfKind(parts, kinds) == {i \in 1..Len(parts) : parts[i].kind \in kinds}

ImageKinds == {"image", "caption", "failed", "note"}

\* C24: the content parts of one completion call appear in the order history
\* text, ordered-index block, tabular-data block, document block, image
\* entries, user message; a block is there exactly when its input is not
\* empty, and the new user message is the last part.
C24_FixedPartOrder ==
    prm_out # <<>> =>
        LET parts == prm_out.parts
            in == prm_in
        IN  /\ \A i, j \in 1..Len(parts) :
                  i < j => BlockRank(parts[i].kind) <= BlockRank(parts[j].kind)
            /\ \A k \in {"history", "index", "csv", "documents", "user"} :
                  Cardinality(PartsOfKind(parts, {k})) <= 1
            /\ PartsOfKind(parts, {"history"}) # {} <=> in.history # <<>>
            /\ PartsOfKind(parts, {"index"}) # {} <=> FileCount(in.sd) > 0
            /\ PartsOfKind(parts, {"csv"}) # {} <=> in.sd.csvs # <<>>
            /\ PartsOfKind(parts, {"documents"}) # {} <=> in.sd.documents # <<>>
            /\ PartsOfKind(parts, ImageKinds) # {} <=> in.sd.images # <<>>
            /\ parts[Len(parts)] = Part("user", "", <<in.message>>)

\* all six blocks at once, with two images
C24_Witness ==
    /\ prm_out # <<>>
    /\ [i \in 1..Len(prm_out.parts) |-> prm_out.parts[i].kind]
          = <<"history", "index", "csv", "documents", "image", "caption",
              "image", "caption", "note", "user">>

\* the turns rendered into the history text
HistoryTextTurns(parts) ==
    IF PartsOfKind(parts, {"history"}) = {} THEN <<>>
    ELSE parts[CHOOSE i \in PartsOfKind(parts, {"history"}) : TRUE].body

\* C25: the history text consists of the 10-turn window taken right after the
\* in-flight user turn was appended, without that turn: it never contains the
\* request's own user message and holds at most 9 turns, the last ones stored
\* before the request, in insertion order.
C25_HistoryTextWindow ==
    prm_out # <<>> =>
        LET turns  == HistoryTextTurns(prm_out.parts)
            stored == prm_in.history
            w      == ChatWindow(Append(stored, InFlightTurn(prm_in)))
        IN  /\ Append(turns, InFlightTurn(prm_in)) = w
            /\ \A i \in 1..Len(turns) :
                  /\ turns[i] # InFlightTurn(prm_in)
                  /\ turns[i].content # prm_in.message
            /\ Len(turns) <= HistoryWindow - 1
            /\ IsLastTurns(turns, stored, HistoryWindow - 1)

\* twelve turns are stored and the history text holds the last nine of them
C25_Witness ==
    /\ prm_out # <<>>
    /\ Len(prm_in.history) = 12
    /\ Len(HistoryTextTurns(prm_out.parts)) = 9
    /\ HistoryTextTurns(prm_out.parts)[1] = prm_in.history[4]

\* C26: an image whose content cannot be loaded does not abort the turn: one
\* placeholder text entry naming the file stands in place of that image's
\* entries, every other image is still processed, the user message is still
\* the last part and the completion call is made exactly once.
C26_ImageLoadFailure ==
    prm_out # <<>> =>
        LET parts == prm_out.parts
            imgs  == prm_in.sd.images
            at(kind, ref, body) ==
                {i \in 1..Len(parts) : parts[i] = Part(kind, ref, body)}
        IN  /\ \A n \in 1..Len(imgs) :
                  LET fid == imgs[n].file_id
                      fname == imgs[n].filename
                  IN  IF fid \in prm_in.unloadable
                      THEN /\ Cardinality(at("failed", "", <<fname>>)) = 1
                           /\ at("image", fid, <<>>) = {}
                           /\ at("caption", fid, <<fname>>) = {}
                      ELSE /\ Cardinality(at("image", fid, <<>>)) = 1
                           /\ at("caption", fid, <<fname>>)
                                 = {i + 1 : i \in at("image", fid, <<>>)}
                           /\ at("failed", "", <<fname>>) = {}
            /\ Len(parts) > 0 /\ parts[Len(parts)] = Part("user", "", <<prm_in.message>>)
            /\ Len(prm_out.completions) = 1

\* the first of two images fails to load, the second one is sent
C26_Witness ==
    /\ prm_out # <<>>
    /\ Len(prm_in.sd.images) = 2
    /\ prm_in.unloadable = {prm_in.sd.images[1].file_id}
    /\ [i \in 1..Len(prm_out.parts) |-> prm_out.parts[i].kind]
          = <<"index", "failed", "image", "caption", "note", "user">>

-----------------------------------------------------------------------------
(* Properties: the chunks of the text splitters *)

\* the named splitter has returned
Returned(splitter) == split_out # <<>> /\ split_out.splitter = splitter

\* the chunk holds none of the separators at which it could still be split
Atomic(chunk) == \A k \in 1..Len(separators) : Occurrences(chunk, separators[k]) = {}

\* C29: for every text and chunk size, with overlap 0, no chunk returned by
\* the recursive splitter is longer than the chunk size unless it is a single
\* atomic unit, i.e. it contains none of the separators.
C29_ChunkSizeBound ==
    (Returned("RecursiveTextSplitter") /\ split_in.chunk_overlap = 0) =>
        \A i \in 1..Len(split_out.chunks) :
            \/ Len(split_out.chunks[i]) <= split_in.chunk_size
            \/ Atomic(split_out.chunks[i])

RECURSIVE Concat(_)
Concat(chunks) == IF chunks = <<>> THEN <<>> ELSE Head(chunks) \o Concat(Tail(chunks))

Solid(text) == SelectSeq(text, LAMBDA c : c \notin Whitespace)

\* C30: for every text and chunk size, with overlap 0, the chunks concatenated
\* in order reproduce the text up to whitespace: no non-whitespace character of
\* the text is lost, duplicated or reordered.
C30_RoundTrip ==
    (Returned("RecursiveTextSplitter") /\ split_in.chunk_overlap = 0) =>
        Solid(Concat(split_out.chunks)) = Solid(split_in.text)

\* C31: for every text, also an empty or whitespace-only one, no chunk that
\* TextSplitter.split_text or RecursiveTextSplitter.split_text returns is
\* empty or consists only of whitespace.
C31_NoBlankChunk ==
    split_out # <<>> =>
        \A i \in 1..Len(split_out.chunks) : Solid(split_out.chunks[i]) # <<>>

\* C38: TextSplitter.split_text loses no content: with overlap 0, every
\* non-whitespace character of the text occurs in some returned chunk, also
\* the characters of a sentence longer than the chunk size.
C38_NoContentLost ==
    (Returned("TextSplitter") /\ split_in.chunk_overlap = 0) =>
        \A i \in 1..Len(split_in.text) :
            split_in.text[i] \notin Whitespace =>
                \E j \in 1..Len(split_out.chunks) :
                    \E k \in 1..Len(split_out.chunks[j]) :
                        split_out.chunks[j][k] = split_in.text[i]

-----------------------------------------------------------------------------
(* Properties: uploads that overlap *)

\* the time at which the first upload into session s stored its record
FirstStoredAt(s) ==
    up_done[CHOOSE i \in 1..Len(up_done) :
                /\ up_done[i].sid = s
                /\ \A j \in 1..(i - 1) : up_done[j].sid # s].at

\* C34: uploads that run concurrently against the same previously unknown
\* session id all end up recorded: the session holds the artifact record of
\* every upload that finished, and the session record is the one the first
\* of them created; a later upload neither replaces it nor drops an artifact.
C34_BothUploadsRecorded ==
    \A i \in 1..Len(up_done) :
        LET u == up_done[i]
        IN  /\ u.sid \in DOMAIN sessions
            /\ Entry(u.fid, u.filename, u.at) \in EntriesOf(sessions[u.sid], u.kind)
            /\ sessions[u.sid].created_at = FirstStoredAt(u.sid)

\* two uploads with distinct ids, both started while the session was unknown,
\* the second of them an upload_csv that finished later than the first
C34_Witness ==
    /\ Len(up_done) = 2
    /\ up_done[1].sid = up_done[2].sid
    /\ up_done[1].fid # up_done[2].fid
    /\ up_done[1].unknown /\ up_done[2].unknown
    /\ up_done[2].kind = "csvs"
    /\ up_done[1].at < up_done[2].at
    /\ FileCount(sessions[up_done[1].sid]) = 2

-----------------------------------------------------------------------------
(* Properties: what failed and refused calls leave behind *)

\* C33: a chat turn is recorded only after the completion call has returned:
\* a chat call whose completion call fails leaves the stored history of the
\* session exactly as it was before the call.
C33_FailedTurnLeavesHistory ==
    [][(HandlerStep /\ resp'.name = "chat" /\ resp'.completions = <<"raised">>) =>
          HistoryOrAbsent(chat_history', resp'.sid)
              = HistoryOrAbsent(chat_history, resp'.sid)]_vars

\* C35: after delete_session(id) has returned, with whatever outcome, no chat
\* history is stored for id, also for an id that only chat calls have used.
C35_DeleteSessionRemovesHistory ==
    resp.name = "delete_session" => resp.sid \notin DOMAIN chat_history

\* C36: an upload whose type check, validation or parsing fails leaves the
\* sessions map and the history map unchanged: no session is created and no
\* artifact record is added.
C36_RejectedUploadLeavesStore ==
    [][(resp'.name \in Uploads /\ resp'.status = "error" /\ resp' # resp) =>
          /\ sessions' = sessions
          /\ chat_history' = chat_history]_vars

\* a csv upload for an id without a session record was refused
C36_Witness ==
    /\ resp.name = "upload_csv" /\ resp.status = "error"
    /\ resp.sid \notin DOMAIN sessions
    /\ resp.sid \in DOMAIN chat_history

\* C37: the history_cleared flag of delete_all_images, delete_all_csvs and
\* delete_all_documents is true only if the session has no stored chat history
\* after the operation.
C37_HistoryClearedFlag ==
    (resp.name \in ClearKinds /\ resp.history_cleared = "true") =>
        resp.sid \notin DOMAIN chat_history

=============================================================================
